---- MODULE Spec2Model ----
(***************************************************************************)
(* State-machine model of the view-mode plugin (src/main.ts, class         *)
(* ViewModePlugin): policy resolution from frontmatter and folder rules,   *)
(* the lock registry (lockedFiles / temporarilyUnlockedFiles), the         *)
(* enforcement handlers and the setState interceptor, run against a host   *)
(* that owns the views' live state and fires the workspace events.         *)
(*                                                                         *)
(* Strings that the code only compares with === (tokens, property names)   *)
(* are TLA+ strings.  Paths, which the code cuts and prefixes, are         *)
(* sequences of one-character strings.                                     *)
(***************************************************************************)
EXTENDS Integers, Sequences, FiniteSets, TLC

VARIABLES
    settings,                  \* this.settings
    livePreviewConfig,         \* this.livePreviewConfig
    lockedFiles,               \* this.lockedFiles
    temporarilyUnlockedFiles,  \* this.temporarilyUnlockedFiles
    loaded,                    \* event handlers and interval registered
    active,                    \* host: file of the active markdown view
    viewState,                 \* host: view.getState() of each open view
    patchDepth,                \* host view: number of setState wrappers
    frontmatter,               \* host: metadataCache frontmatter per file
    pending,                   \* pending setTimeout callbacks (a bag)
    modalFile,                 \* file held by an open UnlockFileModal
    query,                     \* the last resolution made for a file
    last                       \* record of the handler that ran last

vars == <<settings, livePreviewConfig, lockedFiles, temporarilyUnlockedFiles,
          loaded, active, viewState, patchDepth, frontmatter, pending,
          modalFile, query, last>>

----------------------------------------------------------------------------
(* Bounds *)

\* delayed callbacks (other than the startup scan) pending at one time
MaxPending == 1

\* the documents open in the workspace, and "no active markdown view"
Docs == {1, 2}
NoDoc == 0

----------------------------------------------------------------------------
(* JavaScript values *)

Undefined == "undefined"

\* a frontmatter value with its typeof
StrVal(s) == [type |-> "string", v |-> s]
NumVal(s) == [type |-> "number", v |-> s]
UndefVal == [type |-> "undefined", v |-> ""]

\* String.prototype.lastIndexOf, 0-based, -1 when absent
LastIndexOf(s, c) ==
    LET hits == {i \in 1..Len(s) : s[i] = c}
    IN  IF hits = {} THEN -1 ELSE (CHOOSE i \in hits : \A j \in hits : j <= i) - 1

\* String.prototype.substring(0, end): a negative end counts as 0
Substring0(s, end) ==
    LET e == IF end < 0 THEN 0 ELSE IF end > Len(s) THEN Len(s) ELSE end
    IN  SubSeq(s, 1, e)

\* String.prototype.startsWith
StartsWith(s, p) == Len(p) <= Len(s) /\ SubSeq(s, 1, Len(p)) = p

----------------------------------------------------------------------------
(* Settings *)

ViewModes == {"read", "edit", "edit-source", "edit-preview", "lock"}

DEFAULT_SETTINGS ==
    [ metaPropertyName |-> "view_mode",
      showModeChangeNotification |-> FALSE,
      folderViewModes |-> << >>,
      customYamlNames |-> [ read |-> "read_only", edit |-> "edit_mode",
                            editSource |-> "edit_source",
                            editPreview |-> "edit_preview",
                            lock |-> "locked" ] ]

----------------------------------------------------------------------------
(* Mode resolution *)

\* (mutant) a plain string prefix, the separator forgotten
FolderRuleMatches_PlainPrefix(folderPath, rule) ==
    \/ folderPath = rule.folderPath
    \/ StartsWith(folderPath, rule.folderPath)

\* the folder rule test of getFolderViewMode's loop
FolderRuleMatches(folderPath, rule) ==
    \/ folderPath = rule.folderPath
    \/ StartsWith(folderPath, rule.folderPath \o <<"/">>)

\* (mutant) the last matching rule wins, not the first
FirstFolderMatch_LastWins(folderPath, rules, i) ==
    LET hits == {k \in i..Len(rules) : FolderRuleMatches(folderPath, rules[k])}
    IN  IF hits = {} THEN Undefined
        ELSE rules[CHOOSE k \in hits : \A j \in hits : j <= k].viewMode

\* the for loop of getFolderViewMode, from rule i on
RECURSIVE FirstFolderMatch(_, _, _)
FirstFolderMatch(folderPath, rules, i) ==
    IF i > Len(rules) THEN Undefined
    ELSE IF FolderRuleMatches(folderPath, rules[i]) THEN rules[i].viewMode
    ELSE FirstFolderMatch(folderPath, rules, i + 1)

ContainingFolder(filePath) == Substring0(filePath, LastIndexOf(filePath, "/"))

getFolderViewMode(s, filePath) ==
    FirstFolderMatch(ContainingFolder(filePath), s.folderViewModes, 1)

isValidViewMode(s, value) ==
    IF value.type = "string"
    THEN LET n == s.customYamlNames
         IN  \/ value.v = n.read
             \/ value.v = n.edit
             \/ value.v = n.editSource
             \/ value.v = n.editPreview
             \/ value.v = n.lock
    ELSE FALSE

\* (mutant) the lock name is compared first
convertYamlValueToViewMode_LockFirst(s, value) ==
    LET n == s.customYamlNames
    IN  IF value = n.lock THEN "lock"
        ELSE IF value = n.read THEN "read"
        ELSE IF value = n.edit THEN "edit"
        ELSE IF value = n.editSource THEN "edit-source"
        ELSE IF value = n.editPreview THEN "edit-preview"
        ELSE Undefined

convertYamlValueToViewMode(s, value) ==
    LET n == s.customYamlNames
    IN  IF value = n.read THEN "read"
        ELSE IF value = n.edit THEN "edit"
        ELSE IF value = n.editSource THEN "edit-source"
        ELSE IF value = n.editPreview THEN "edit-preview"
        ELSE IF value = n.lock THEN "lock"
        ELSE Undefined

\* fileCache.frontmatter: absent, or one property with a value
NoFrontmatter == [prop |-> "", val |-> UndefVal]
HasFrontmatter(fm) == fm # NoFrontmatter
\* (mutant) the value is taken whatever the property is called
FrontmatterGet_AnyProperty(fm, name) == fm.val

FrontmatterGet(fm, name) == IF fm.prop = name THEN fm.val ELSE UndefVal

\* (mutant) the folder rules asked first, the frontmatter only without a rule
ResolveViewMode_FolderFirst(s, fm, filePath) ==
    LET frontmatterValue == FrontmatterGet(fm, s.metaPropertyName)
        fromFolder == getFolderViewMode(s, filePath)
    IN  IF fromFolder # Undefined THEN fromFolder
        ELSE IF HasFrontmatter(fm) /\ isValidViewMode(s, frontmatterValue)
             THEN convertYamlValueToViewMode(s, frontmatterValue.v)
             ELSE Undefined

\* the resolution every handler repeats: frontmatter first, then folders
ResolveViewMode(s, fm, filePath) ==
    LET frontmatterValue == FrontmatterGet(fm, s.metaPropertyName)
        fromFm == IF HasFrontmatter(fm) /\ isValidViewMode(s, frontmatterValue)
                  THEN convertYamlValueToViewMode(s, frontmatterValue.v)
                  ELSE Undefined
    IN  IF fromFm = Undefined THEN getFolderViewMode(s, filePath) ELSE fromFm

----------------------------------------------------------------------------
(* The documents of the workspace *)

\* file.path of each document
DocPaths == << <<"L", "/", "x">>, <<"y">> >>
FilePath(d) == DocPaths[d]

----------------------------------------------------------------------------
(* Views, the setState interceptor and the handlers' bodies.               *)
(* A handler body is a function on the record w of everything a handler    *)
(* can write: the views' state and wrappers, the two registry sets, and    *)
(* what the run emitted (notices, calls of the host's original setter,     *)
(* the state object handed to it last).                                    *)

ViewStates == [mode : {"preview", "source"}, source : BOOLEAN]

\* A state object is a record holding the keys that are present.
Has(state, key) == key \in DOMAIN state
NoState == [none |-> TRUE]

\* the host's own setState: keys present in the state object are committed
OriginalSetState(w, d, state) ==
    [w EXCEPT !.viewState[d] =
                  [mode   |-> IF Has(state, "mode") THEN state.mode ELSE @.mode,
                   source |-> IF Has(state, "source") THEN state.source ELSE @.source],
              !.setterCalls = @ + 1,
              !.fwd = state]

\* (mutant) the wrapper shows its notice for every request on a locked file
\* that names a mode, a request for preview included
WrappedSetState_NoticeOnEveryRequest(w, d, state, depth) ==
    IF depth = 0 THEN OriginalSetState(w, d, state)
    ELSE IF /\ d \in w.lockedFiles
            /\ d \notin w.temporarilyUnlockedFiles
            /\ Has(state, "mode")
         THEN OriginalSetState([w EXCEPT !.notices = @ + 1], d,
                               [state EXCEPT !.mode = "preview"])
         ELSE OriginalSetState(w, d, state)

\* (mutant) the wrapper asks lockedFiles alone, not temporarilyUnlockedFiles
WrappedSetState_IgnoresUnlock(w, d, state, depth) ==
    IF depth = 0 THEN OriginalSetState(w, d, state)
    ELSE IF d \in w.lockedFiles /\ Has(state, "mode") /\ state.mode # "preview"
         THEN OriginalSetState([w EXCEPT !.notices = @ + 1], d,
                               [state EXCEPT !.mode = "preview"])
         ELSE OriginalSetState(w, d, state)

\* view.setState under `depth` wrappers installed by patchViewStateMethod
RECURSIVE WrappedSetState(_, _, _, _)
WrappedSetState(w, d, state, depth) ==
    IF depth = 0 THEN OriginalSetState(w, d, state)
    ELSE IF /\ d \in w.lockedFiles
            /\ d \notin w.temporarilyUnlockedFiles
            /\ Has(state, "mode")
            /\ state.mode # "preview"
         THEN WrappedSetState([w EXCEPT !.notices = @ + 1], d,
                              [state EXCEPT !.mode = "preview"], depth - 1)
         ELSE WrappedSetState(w, d, state, depth - 1)

\* view.setState as callers see it
ViewSetState(w, d, state) == WrappedSetState(w, d, state, w.patchDepth[d])

\* (mutant) the wrapper is installed again by every call
patchViewStateMethod_AlwaysWraps(w, d) == [w EXCEPT !.patchDepth[d] = @ + 1]

patchViewStateMethod(w, d) ==
    IF w.patchDepth[d] = 0 THEN [w EXCEPT !.patchDepth[d] = 1] ELSE w

Notify(s, w) ==
    IF s.showModeChangeNotification THEN [w EXCEPT !.notices = @ + 1] ELSE w

\* (mutant) 'read' flips the mode of the view instead of setting preview
setViewMode_ReadToggles(s, lpc, w, d, viewMode) ==
    LET state == w.viewState[d]
        w1 == patchViewStateMethod(w, d)
    IN  CASE viewMode = "read" ->
               ViewSetState(Notify(s, w1), d,
                            [state EXCEPT !.mode = IF @ = "preview" THEN "source"
                                                   ELSE "preview"])
          [] viewMode = "edit" ->
               ViewSetState(Notify(s, w1), d,
                            [state EXCEPT !.mode = "source", !.source = ~lpc])
          [] viewMode = "edit-source" ->
               ViewSetState(Notify(s, w1), d,
                            [state EXCEPT !.mode = "source", !.source = TRUE])
          [] viewMode = "edit-preview" ->
               ViewSetState(Notify(s, w1), d,
                            [state EXCEPT !.mode = "source", !.source = FALSE])
          [] viewMode = "lock" ->
               ViewSetState(Notify(s, [w1 EXCEPT !.lockedFiles = @ \cup {d}]), d,
                            [state EXCEPT !.mode = "preview"])
          [] OTHER -> w1

\* (mutant) 'edit' writes source = livePreviewConfig, the negation forgotten
setViewMode_EditStyleInverted(s, lpc, w, d, viewMode) ==
    LET state == w.viewState[d]
        w1 == patchViewStateMethod(w, d)
    IN  CASE viewMode = "read" ->
               ViewSetState(Notify(s, w1), d, [state EXCEPT !.mode = "preview"])
          [] viewMode = "edit" ->
               ViewSetState(Notify(s, w1), d,
                            [state EXCEPT !.mode = "source", !.source = lpc])
          [] viewMode = "edit-source" ->
               ViewSetState(Notify(s, w1), d,
                            [state EXCEPT !.mode = "source", !.source = TRUE])
          [] viewMode = "edit-preview" ->
               ViewSetState(Notify(s, w1), d,
                            [state EXCEPT !.mode = "source", !.source = FALSE])
          [] viewMode = "lock" ->
               ViewSetState(Notify(s, [w1 EXCEPT !.lockedFiles = @ \cup {d}]), d,
                            [state EXCEPT !.mode = "preview"])
          [] OTHER -> w1

setViewMode(s, lpc, w, d, viewMode) ==
    LET state == w.viewState[d]
        w1 == patchViewStateMethod(w, d)
    IN  CASE viewMode = "read" ->
               ViewSetState(Notify(s, w1), d, [state EXCEPT !.mode = "preview"])
          [] viewMode = "edit" ->
               ViewSetState(Notify(s, w1), d,
                            [state EXCEPT !.mode = "source", !.source = ~lpc])
          [] viewMode = "edit-source" ->
               ViewSetState(Notify(s, w1), d,
                            [state EXCEPT !.mode = "source", !.source = TRUE])
          [] viewMode = "edit-preview" ->
               ViewSetState(Notify(s, w1), d,
                            [state EXCEPT !.mode = "source", !.source = FALSE])
          [] viewMode = "lock" ->
               ViewSetState(Notify(s, [w1 EXCEPT !.lockedFiles = @ \cup {d}]), d,
                            [state EXCEPT !.mode = "preview"])
          [] OTHER -> w1

\* (mutant) the view is given a new state object, not its own with the mode
\* changed
ForcePreview_FreshState(w, d, notice) ==
    IF w.viewState[d].mode # "preview"
    THEN LET w1 == ViewSetState(w, d, [mode |-> "preview", source |-> FALSE])
         IN  IF notice THEN [w1 EXCEPT !.notices = @ + 1] ELSE w1
    ELSE w

\* force a view to preview if it is not there, with a notice when told to
ForcePreview(w, d, notice) ==
    IF w.viewState[d].mode # "preview"
    THEN LET w1 == ViewSetState(w, d, [w.viewState[d] EXCEPT !.mode = "preview"])
         IN  IF notice THEN [w1 EXCEPT !.notices = @ + 1] ELSE w1
    ELSE w

\* (mutant) a newly found lock is registered, the view left as it is
checkAndEnforceLockedFiles_NoForceOnDiscovery(s, fms, w, act) ==
    IF act = NoDoc THEN w
    ELSE IF act \in w.temporarilyUnlockedFiles THEN w
    ELSE LET w1 == IF act \in w.lockedFiles THEN ForcePreview(w, act, TRUE) ELSE w
             viewMode == ResolveViewMode(s, fms[act], FilePath(act))
         IN  IF /\ viewMode = "lock"
                /\ act \notin w1.lockedFiles
                /\ act \notin w1.temporarilyUnlockedFiles
             THEN [w1 EXCEPT !.lockedFiles = @ \cup {act}]
             ELSE w1

\* (mutant) every open view of an enforced-locked file is put to preview,
\* not the active one alone
checkAndEnforceLockedFiles_EveryView(s, fms, w, act) ==
    IF act = NoDoc THEN w
    ELSE IF act \in w.temporarilyUnlockedFiles THEN w
    ELSE LET w1 == [w EXCEPT !.viewState =
                        [d \in Docs |->
                            IF d \in w.lockedFiles /\ d \notin w.temporarilyUnlockedFiles
                            THEN [@[d] EXCEPT !.mode = "preview"] ELSE @[d]]]
             viewMode == ResolveViewMode(s, fms[act], FilePath(act))
         IN  IF /\ viewMode = "lock"
                /\ act \notin w1.lockedFiles
                /\ act \notin w1.temporarilyUnlockedFiles
             THEN ForcePreview([w1 EXCEPT !.lockedFiles = @ \cup {act}], act, TRUE)
             ELSE w1

\* (mutant) a registered file that no longer resolves to lock is dropped
checkAndEnforceLockedFiles_PrunesStaleLock(s, fms, w, act) ==
    IF act = NoDoc THEN w
    ELSE IF act \in w.temporarilyUnlockedFiles THEN w
    ELSE LET viewMode == ResolveViewMode(s, fms[act], FilePath(act))
             w0 == IF viewMode # "lock"
                   THEN [w EXCEPT !.lockedFiles = @ \ {act}] ELSE w
             w1 == IF act \in w0.lockedFiles THEN ForcePreview(w0, act, TRUE) ELSE w0
         IN  IF /\ viewMode = "lock"
                /\ act \notin w1.lockedFiles
                /\ act \notin w1.temporarilyUnlockedFiles
             THEN ForcePreview([w1 EXCEPT !.lockedFiles = @ \cup {act}], act, TRUE)
             ELSE w1

\* (mutant) locks already registered are enforced, none is discovered
checkAndEnforceLockedFiles_NoDiscovery(s, fms, w, act) ==
    IF act = NoDoc THEN w
    ELSE IF act \in w.temporarilyUnlockedFiles THEN w
    ELSE IF act \in w.lockedFiles THEN ForcePreview(w, act, TRUE) ELSE w

checkAndEnforceLockedFiles(s, fms, w, act) ==
    IF act = NoDoc THEN w
    ELSE IF act \in w.temporarilyUnlockedFiles THEN w
    ELSE LET w1 == IF act \in w.lockedFiles THEN ForcePreview(w, act, TRUE) ELSE w
             viewMode == ResolveViewMode(s, fms[act], FilePath(act))
         IN  IF /\ viewMode = "lock"
                /\ act \notin w1.lockedFiles
                /\ act \notin w1.temporarilyUnlockedFiles
             THEN ForcePreview([w1 EXCEPT !.lockedFiles = @ \cup {act}], act, TRUE)
             ELSE w1

isFileLocked(w, d) == d \in w.lockedFiles

\* (mutant) the clear() runs only when more than one file is unlocked
handleLeafChange_OffByOne(w) ==
    IF Cardinality(w.temporarilyUnlockedFiles) > 1
    THEN [w EXCEPT !.temporarilyUnlockedFiles = {},
                   !.cleared = w.temporarilyUnlockedFiles]
    ELSE w

\* (w.cleared records what the clear() dropped)
handleLeafChange(w) ==
    IF Cardinality(w.temporarilyUnlockedFiles) > 0
    THEN [w EXCEPT !.temporarilyUnlockedFiles = {},
                   !.cleared = w.temporarilyUnlockedFiles]
    ELSE w

\* (mutant) the view is switched before the registry is updated
unlockFile_SetStateFirst(lpc, w, act, d) ==
    LET w1 == IF act # NoDoc /\ act = d
              THEN ViewSetState(w, d, [w.viewState[d] EXCEPT !.mode = "source",
                                                             !.source = ~lpc])
              ELSE w
    IN  [w1 EXCEPT !.lockedFiles = @ \ {d},
                   !.temporarilyUnlockedFiles = @ \cup {d}]

unlockFile(lpc, w, act, d) ==
    LET w1 == [w EXCEPT !.lockedFiles = @ \ {d},
                        !.temporarilyUnlockedFiles = @ \cup {d}]
    IN  IF act # NoDoc /\ act = d
        THEN ViewSetState(w1, d, [w1.viewState[d] EXCEPT !.mode = "source",
                                                         !.source = ~lpc])
        ELSE w1

\* (mutant) only the first of the open views is looked at
initializeLockedFiles_FirstViewOnly(s, fms, w, views) ==
    IF views = {} THEN w
    ELSE LET d == CHOOSE x \in views : \A y \in views : x <= y
             viewMode == ResolveViewMode(s, fms[d], FilePath(d))
         IN  IF viewMode = "lock"
             THEN ForcePreview([w EXCEPT !.lockedFiles = @ \cup {d}], d,
                               s.showModeChangeNotification)
             ELSE w

\* the forEach of initializeLockedFiles over the open markdown views
RECURSIVE initializeLockedFiles(_, _, _, _)
initializeLockedFiles(s, fms, w, views) ==
    IF views = {} THEN w
    ELSE LET d == CHOOSE x \in views : \A y \in views : x <= y
             viewMode == ResolveViewMode(s, fms[d], FilePath(d))
             w1 == IF viewMode = "lock"
                   THEN ForcePreview([w EXCEPT !.lockedFiles = @ \cup {d}], d,
                                     s.showModeChangeNotification)
                   ELSE w
         IN  initializeLockedFiles(s, fms, w1, views \ {d})

\* (mutant) the callback resolves from the frontmatter alone, no folder rule
FileOpenCallback_FrontmatterOnly(s, lpc, fms, w, act, file) ==
    LET viewMode == ResolveViewMode([s EXCEPT !.folderViewModes = << >>],
                                    fms[file], FilePath(file))
    IN  IF viewMode = Undefined THEN w
        ELSE IF act = NoDoc \/ act # file THEN w
        ELSE setViewMode(s, lpc, w, act, viewMode)

\* the delayed callback of the file-open handler
FileOpenCallback(s, lpc, fms, w, act, file) ==
    LET viewMode == ResolveViewMode(s, fms[file], FilePath(file))
    IN  IF viewMode = Undefined THEN w
        ELSE IF act = NoDoc \/ act # file THEN w
        ELSE setViewMode(s, lpc, w, act, viewMode)

\* the delayed callback of the second layout-change handler
LayoutChangeCallback(w, act) ==
    IF act # NoDoc /\ act \in w.lockedFiles /\ act \notin w.temporarilyUnlockedFiles
    THEN ForcePreview(w, act, FALSE)
    ELSE w

onunload(w) == [w EXCEPT !.lockedFiles = {}, !.temporarilyUnlockedFiles = {}]

\* (mutant) no default for a missing livePreview key: the field stays falsy
refreshEditConfig_NoDefaultForAbsent(appConfig) ==
    CASE appConfig = "unreadable" -> TRUE
      [] appConfig = "absent" -> FALSE
      [] appConfig = "true" -> TRUE
      [] appConfig = "false" -> FALSE

refreshEditConfig(appConfig) ==
    CASE appConfig = "unreadable" -> TRUE
      [] appConfig = "absent" -> TRUE
      [] appConfig = "true" -> TRUE
      [] appConfig = "false" -> FALSE


----------------------------------------------------------------------------
(* The state machine *)

\* configuration of the enforcement runs: the defaults plus one folder rule
EngineSettings ==
    [DEFAULT_SETTINGS EXCEPT
        !.folderViewModes = << [folderPath |-> <<"L">>, viewMode |-> "lock"] >>]

Frontmatter(token) == [prop |-> "view_mode", val |-> StrVal(token)]
\* what each document's frontmatter can hold: document 1 lies in the locked
\* folder, document 2 at the vault root
DocFrontmatters(d) ==
    IF d = 1 THEN {NoFrontmatter, Frontmatter("edit_mode")}
    ELSE {NoFrontmatter, Frontmatter("locked")}

AppConfigs == {"unreadable", "absent", "true", "false"}

\* state objects the host's own controls hand to view.setState
HostRequests == [mode : {"preview", "source"}]

NoQuery == [none |-> TRUE]

\* pending delayed callbacks: the startup scan, and a bag of the others
MetaCheck == <<"meta", NoDoc>>
LayoutCheck == <<"layout", NoDoc>>
OpenCheck(d) == <<"open", d>>
CallbackKinds == {MetaCheck, LayoutCheck} \cup {OpenCheck(d) : d \in Docs}
NoPending == [init |-> 0, cb |-> [k \in CallbackKinds |-> 0]]
RECURSIVE BagSize(_, _)
BagSize(bag, kinds) ==
    IF kinds = {} THEN 0
    ELSE LET k == CHOOSE x \in kinds : TRUE
         IN  bag[k] + BagSize(bag, kinds \ {k})
CanSchedule == BagSize(pending.cb, CallbackKinds) < MaxPending
Schedule(k) == [pending EXCEPT !.cb[k] = @ + 1]
Fire(k) == [pending EXCEPT !.cb[k] = @ - 1]

W0 == [viewState |-> viewState, patchDepth |-> patchDepth,
       lockedFiles |-> lockedFiles,
       temporarilyUnlockedFiles |-> temporarilyUnlockedFiles,
       notices |-> 0, setterCalls |-> 0, fwd |-> NoState, cleared |-> {}]

\* what a handler run leaves: its writes, and the record of the run
CommitRun(w, op, doc, req) ==
    /\ viewState' = w.viewState
    /\ patchDepth' = w.patchDepth
    /\ lockedFiles' = w.lockedFiles
    /\ temporarilyUnlockedFiles' = w.temporarilyUnlockedFiles
    /\ last' = [op |-> op, doc |-> doc, req |-> req, fwd |-> w.fwd,
                notices |-> w.notices, setterCalls |-> w.setterCalls,
                cleared |-> w.cleared]

Commit(w, op, doc) == CommitRun(w, op, doc, NoState)

NoRun == [op |-> "onload", doc |-> NoDoc, req |-> NoState, fwd |-> NoState,
          notices |-> 0, setterCalls |-> 0, cleared |-> {}]

Resolved(d) == ResolveViewMode(settings, frontmatter[d], FilePath(d))
EnforcedLocked(d) == d \in lockedFiles /\ d \notin temporarilyUnlockedFiles

Init ==
    /\ settings = EngineSettings
    /\ \E c \in {"unreadable", "absent", "true"} :
           livePreviewConfig = refreshEditConfig(c)
    /\ lockedFiles = {}
    /\ temporarilyUnlockedFiles = {}
    /\ loaded = TRUE
    /\ active \in Docs \cup {NoDoc}
    /\ viewState \in [Docs -> [mode : {"preview", "source"}, source : {FALSE}]]
    /\ patchDepth = [d \in Docs |-> 0]
    /\ frontmatter \in {f \in [Docs -> UNION {DocFrontmatters(d) : d \in Docs}] :
                           \A d \in Docs : f[d] \in DocFrontmatters(d)}
    /\ pending = [NoPending EXCEPT !.init = 1]
    /\ modalFile = NoDoc
    /\ query = NoQuery
    /\ last = NoRun

\* the 500 ms callback of onload
InitTimeout ==
    /\ pending.init > 0
    /\ pending' = [pending EXCEPT !.init = @ - 1]
    /\ Commit(initializeLockedFiles(settings, frontmatter, W0, Docs), "init", NoDoc)
    /\ UNCHANGED <<query, modalFile, settings, livePreviewConfig, loaded, active, frontmatter>>

\* the active view changes: active-leaf-change and file-open fire
HostNavigate(d) ==
    /\ d # active
    /\ (d # NoDoc /\ loaded) => CanSchedule
    /\ active' = d
    /\ IF loaded
       THEN /\ Commit(handleLeafChange(
                        checkAndEnforceLockedFiles(settings, frontmatter, W0, d)),
                      "active-leaf-change", d)
            /\ pending' = IF d # NoDoc THEN Schedule(OpenCheck(d)) ELSE pending
       ELSE /\ Commit(W0, "none", d)
            /\ UNCHANGED pending
    /\ UNCHANGED <<query, modalFile, settings, livePreviewConfig, loaded, frontmatter>>

\* the 100 ms callback of the file-open handler
FileOpenTimeout(file) ==
    /\ pending.cb[OpenCheck(file)] > 0
    /\ pending' = Fire(OpenCheck(file))
    /\ Commit(FileOpenCallback(settings, livePreviewConfig, frontmatter, W0, active, file),
              "file-open", file)
    /\ UNCHANGED <<query, modalFile, settings, livePreviewConfig, loaded, active, frontmatter>>

\* layout-change: both handlers run, the second one schedules its check
HostLayoutChange ==
    /\ loaded
    /\ CanSchedule
    /\ pending' = Schedule(LayoutCheck)
    /\ Commit(checkAndEnforceLockedFiles(settings, frontmatter, W0, active),
              "layout-change", active)
    /\ UNCHANGED <<query, modalFile, settings, livePreviewConfig, loaded, active, frontmatter>>

\* the 10 ms callback of the second layout-change handler
LayoutTimeout ==
    /\ pending.cb[LayoutCheck] > 0
    /\ pending' = Fire(LayoutCheck)
    /\ Commit(LayoutChangeCallback(W0, active), "layout-check", active)
    /\ UNCHANGED <<query, modalFile, settings, livePreviewConfig, loaded, active, frontmatter>>

HostResize ==
    /\ loaded
    /\ Commit(checkAndEnforceLockedFiles(settings, frontmatter, W0, active),
              "resize", active)
    /\ UNCHANGED <<query, modalFile, settings, livePreviewConfig, loaded, active, frontmatter, pending>>

\* (mutant) the interval enforces whatever temporarilyUnlockedFiles holds
Tick_AlwaysEnforces ==
    /\ loaded
    /\ Commit(checkAndEnforceLockedFiles(settings, frontmatter, W0, active),
              "tick", active)
    /\ UNCHANGED <<query, modalFile, settings, livePreviewConfig, loaded, active, frontmatter, pending>>

\* the 1 s interval
Tick ==
    /\ loaded
    /\ Commit(IF Cardinality(temporarilyUnlockedFiles) = 0
              THEN checkAndEnforceLockedFiles(settings, frontmatter, W0, active)
              ELSE W0,
              "tick", active)
    /\ UNCHANGED <<query, modalFile, settings, livePreviewConfig, loaded, active, frontmatter, pending>>

\* the frontmatter of a file is edited: metadataCache fires 'changed'
HostMetadataChanged(d, fm) ==
    /\ fm # frontmatter[d]
    /\ loaded => CanSchedule
    /\ frontmatter' = [frontmatter EXCEPT ![d] = fm]
    /\ pending' = IF loaded THEN Schedule(MetaCheck) ELSE pending
    /\ Commit(W0, "metadata-changed", d)
    /\ UNCHANGED <<query, modalFile, settings, livePreviewConfig, loaded, active>>

\* the 100 ms callback of the metadata handler
MetadataTimeout ==
    /\ pending.cb[MetaCheck] > 0
    /\ pending' = Fire(MetaCheck)
    /\ Commit(checkAndEnforceLockedFiles(settings, frontmatter, W0, active),
              "metadata-check", active)
    /\ UNCHANGED <<query, modalFile, settings, livePreviewConfig, loaded, active, frontmatter>>

\* one of the host's own controls asks a view for another state
HostSetState(d, req) ==
    /\ CommitRun(ViewSetState(W0, d, req), "host-setState", d, req)
    /\ UNCHANGED <<query, modalFile, settings, livePreviewConfig, loaded, active, frontmatter, pending>>

\* the 'Unlock file' command: its checkCallback passes and the modal opens
UnlockCommand ==
    /\ loaded
    /\ modalFile = NoDoc
    /\ active # NoDoc
    /\ isFileLocked(W0, active)
    /\ modalFile' = active
    /\ Commit(W0, "unlock-command", active)
    /\ UNCHANGED <<query, settings, livePreviewConfig, loaded, active, frontmatter,
                   pending>>

\* the modal's Unlock button: plugin.unlockFile and the modal's notice
UnlockConfirm ==
    /\ modalFile # NoDoc
    /\ modalFile' = NoDoc
    /\ Commit([unlockFile(livePreviewConfig, W0, active, modalFile)
                  EXCEPT !.notices = @ + 1],
              "unlock", modalFile)
    /\ UNCHANGED <<query, settings, livePreviewConfig, loaded, active, frontmatter,
                   pending>>

\* the modal's Cancel button
UnlockCancel ==
    /\ modalFile # NoDoc
    /\ modalFile' = NoDoc
    /\ Commit(W0, "unlock-cancel", modalFile)
    /\ UNCHANGED <<query, settings, livePreviewConfig, loaded, active, frontmatter,
                   pending>>

\* the plugin is disabled: handlers and interval are removed with it
Unload ==
    /\ loaded
    /\ loaded' = FALSE
    /\ Commit(onunload(W0), "onunload", NoDoc)
    /\ UNCHANGED <<query, modalFile, settings, livePreviewConfig, active, frontmatter, pending>>

Next ==
    \/ InitTimeout
    \/ \E d \in Docs \cup {NoDoc} : HostNavigate(d)
    \/ \E f \in Docs : FileOpenTimeout(f)
    \/ HostLayoutChange
    \/ LayoutTimeout
    \/ HostResize
    \/ Tick
    \/ \E d \in Docs : \E fm \in DocFrontmatters(d) : HostMetadataChanged(d, fm)
    \/ MetadataTimeout
    \/ \E d \in Docs, req \in HostRequests : HostSetState(d, req)
    \/ UnlockCommand
    \/ UnlockConfirm
    \/ UnlockCancel

Spec == Init /\ [][Next]_vars


----------------------------------------------------------------------------
(* The same machine with every editing style: the host's configuration    *)
(* may switch live preview off, views hold either source style, and the   *)
(* host's requests carry the source key.  Frontmatter stays as found and   *)
(* one of the two documents is always the active one.                     *)

StyleRequests ==
    [mode : {"preview", "source"}] \cup [source : {TRUE}]
        \cup [mode : {"source"}, source : BOOLEAN]

StyleFrontmatters(d) ==
    IF d = 1
    THEN {NoFrontmatter, Frontmatter("edit_mode"), Frontmatter("edit_source"),
          Frontmatter("edit_preview"), Frontmatter("read_only")}
    ELSE {Frontmatter("locked")}

InitStyles ==
    /\ settings = EngineSettings
    /\ \E c \in AppConfigs : livePreviewConfig = refreshEditConfig(c)
    /\ lockedFiles = {}
    /\ temporarilyUnlockedFiles = {}
    /\ loaded = TRUE
    /\ active \in Docs
    /\ viewState \in [Docs -> ViewStates]
    /\ patchDepth = [d \in Docs |-> 0]
    /\ frontmatter \in {f \in [Docs -> UNION {StyleFrontmatters(d) : d \in Docs}] :
                           \A d \in Docs : f[d] \in StyleFrontmatters(d)}
    /\ pending = [NoPending EXCEPT !.init = 1]
    /\ modalFile = NoDoc
    /\ query = NoQuery
    /\ last = NoRun

NextStyles ==
    \/ InitTimeout
    \/ \E d \in Docs : HostNavigate(d)
    \/ \E f \in Docs : FileOpenTimeout(f)
    \/ Tick
    \/ \E d \in Docs, req \in StyleRequests : HostSetState(d, req)
    \/ UnlockCommand
    \/ UnlockConfirm

SpecStyles == InitStyles /\ [][NextStyles]_vars

----------------------------------------------------------------------------
(* Resolution under the settings tab: the tab's handlers edit this.settings *)
(* and a file is resolved against what they left.                          *)

\* folder rules the settings tab may hold at one time
MaxRules == 2

\* values typed into the tab's text fields
FolderInputs == { << >>, <<"N">>, <<"n">>, <<"N", "/", "s">> }
ModeInputs == {"read", "lock"}
LockNameInputs == {"locked", "edit_mode", ""}
PropertyNameInputs == {"view_mode", "ViewStyle"}

\* files of the vault: containing folder and file name
QueryFolders == { << >>, <<"N">>, <<"N", "b">>, <<"N", "/", "s">>, <<"n">> }
QueryName == <<"x">>
VaultPath(folder) == IF folder = << >> THEN QueryName ELSE folder \o <<"/">> \o QueryName
QueryFrontmatters ==
    { NoFrontmatter,
      [prop |-> "view_mode", val |-> StrVal("locked")],
      [prop |-> "view_mode", val |-> StrVal("edit_mode")],
      [prop |-> "view_mode", val |-> StrVal("")],
      [prop |-> "view_mode", val |-> NumVal("7")],
      [prop |-> "ViewStyle", val |-> StrVal("locked")] }

\* frontmatter as the README writes it: view_mode: <mode>
DocumentedFrontmatters ==
    { [prop |-> "view_mode", val |-> StrVal(m)] : m \in ViewModes }

engineVars == <<livePreviewConfig, lockedFiles, temporarilyUnlockedFiles, loaded,
                active, viewState, patchDepth, frontmatter, pending, modalFile,
                last>>

InitResolve ==
    /\ settings = DEFAULT_SETTINGS
    /\ livePreviewConfig = TRUE
    /\ lockedFiles = {}
    /\ temporarilyUnlockedFiles = {}
    /\ loaded = TRUE
    /\ active = NoDoc
    /\ viewState = [d \in Docs |-> [mode |-> "source", source |-> FALSE]]
    /\ patchDepth = [d \in Docs |-> 0]
    /\ frontmatter = [d \in Docs |-> NoFrontmatter]
    /\ pending = NoPending
    /\ modalFile = NoDoc
    /\ query = NoQuery
    /\ last = NoRun

\* 'Meta property name' text field
SetMetaPropertyName(value) ==
    /\ settings' = [settings EXCEPT !.metaPropertyName = value]
    /\ query' = NoQuery
    /\ UNCHANGED engineVars

\* 'Lock mode name' text field
SetLockName(value) ==
    /\ settings' = [settings EXCEPT !.customYamlNames.lock = value]
    /\ query' = NoQuery
    /\ UNCHANGED engineVars

\* '+ Add folder' button
AddFolder ==
    /\ Len(settings.folderViewModes) < MaxRules
    /\ settings' = [settings EXCEPT !.folderViewModes =
                        Append(@, [folderPath |-> << >>, viewMode |-> "read"])]
    /\ query' = NoQuery
    /\ UNCHANGED engineVars

\* a folder row's text field
SetFolderPath(i, value) ==
    /\ i \in 1..Len(settings.folderViewModes)
    /\ settings' = [settings EXCEPT !.folderViewModes[i].folderPath = value]
    /\ query' = NoQuery
    /\ UNCHANGED engineVars

\* a folder row's dropdown
SetFolderMode(i, mode) ==
    /\ i \in 1..Len(settings.folderViewModes)
    /\ settings' = [settings EXCEPT !.folderViewModes[i].viewMode = mode]
    /\ query' = NoQuery
    /\ UNCHANGED engineVars

\* a folder row's trash button: splice(index, 1)
RemoveFolder(i) ==
    /\ i \in 1..Len(settings.folderViewModes)
    /\ settings' = [settings EXCEPT !.folderViewModes =
                        SubSeq(@, 1, i - 1) \o SubSeq(@, i + 1, Len(@))]
    /\ query' = NoQuery
    /\ UNCHANGED engineVars

\* a handler resolves the mode of a file
ResolveFile(folder, fm) ==
    /\ query' = [folder |-> folder, fm |-> fm,
                 folderMode |-> getFolderViewMode(settings, VaultPath(folder)),
                 mode |-> ResolveViewMode(settings, fm, VaultPath(folder))]
    /\ UNCHANGED settings
    /\ UNCHANGED engineVars

NextResolve ==
    \/ \E v \in PropertyNameInputs : SetMetaPropertyName(v)
    \/ \E v \in LockNameInputs : SetLockName(v)
    \/ AddFolder
    \/ \E i \in 1..MaxRules, v \in FolderInputs : SetFolderPath(i, v)
    \/ \E i \in 1..MaxRules, m \in ModeInputs : SetFolderMode(i, m)
    \/ \E i \in 1..MaxRules : RemoveFolder(i)
    \/ \E folder \in QueryFolders, fm \in QueryFrontmatters : ResolveFile(folder, fm)
    \/ \E fm \in DocumentedFrontmatters : ResolveFile(<< >>, fm)

SpecResolve == InitResolve /\ [][NextResolve]_vars


----------------------------------------------------------------------------
(* The engine while the settings tab is edited: frontmatter written for    *)
(* another configuration stays as it is, the property name and the lock    *)
(* name change under it.                                                    *)

\* the defaults, and files of folder L opening in read mode
ReconfigSettings ==
    [DEFAULT_SETTINGS EXCEPT
        !.folderViewModes = << [folderPath |-> <<"L">>, viewMode |-> "read"] >>]

\* document 1: a string that is no default name, or a number; document 2:
\* the default lock name under another property, or no frontmatter
ReconfigFrontmatters(d) ==
    IF d = 1
    THEN {[prop |-> "view_mode", val |-> StrVal("draft")],
          [prop |-> "view_mode", val |-> NumVal("7")]}
    ELSE {[prop |-> "ViewStyle", val |-> StrVal("locked")], NoFrontmatter}

ReconfigLockNames == {"locked", "draft"}

InitReconfig ==
    /\ settings = ReconfigSettings
    /\ livePreviewConfig = refreshEditConfig("true")
    /\ lockedFiles = {}
    /\ temporarilyUnlockedFiles = {}
    /\ loaded = TRUE
    /\ active \in Docs
    /\ viewState \in [Docs -> [mode : {"preview", "source"}, source : {FALSE}]]
    /\ patchDepth = [d \in Docs |-> 0]
    /\ frontmatter \in {f \in [Docs -> UNION {ReconfigFrontmatters(d) : d \in Docs}] :
                           \A d \in Docs : f[d] \in ReconfigFrontmatters(d)}
    /\ pending = [NoPending EXCEPT !.init = 1]
    /\ modalFile = NoDoc
    /\ query = NoQuery
    /\ last = NoRun

NextReconfig ==
    \/ \E v \in PropertyNameInputs : SetMetaPropertyName(v)
    \/ \E v \in ReconfigLockNames : SetLockName(v)
    \/ InitTimeout
    \/ \E d \in Docs : HostNavigate(d)
    \/ \E f \in Docs : FileOpenTimeout(f)
    \/ Tick
    \/ HostResize
    \/ \E d \in Docs, req \in HostRequests : HostSetState(d, req)

SpecReconfig == InitReconfig /\ [][NextReconfig]_vars

----------------------------------------------------------------------------
(* The engine with its shutdown.  onunload clears the two sets; the host    *)
(* removes the registered events and the interval with the plugin, and the  *)
(* callbacks given to setTimeout stay scheduled.  The unlock modal is left   *)
(* out.                                                                      *)

NextShutdown ==
    \/ InitTimeout
    \/ \E d \in Docs \cup {NoDoc} : HostNavigate(d)
    \/ \E f \in Docs : FileOpenTimeout(f)
    \/ HostLayoutChange
    \/ LayoutTimeout
    \/ Tick
    \/ \E d \in Docs : \E fm \in DocFrontmatters(d) : HostMetadataChanged(d, fm)
    \/ MetadataTimeout
    \/ \E d \in Docs, req \in HostRequests : HostSetState(d, req)
    \/ Unload

SpecShutdown == Init /\ [][NextShutdown]_vars

----------------------------------------------------------------------------
(* The engine with the frontmatter as found: the handlers that reconcile,   *)
(* the requests of the host and the unlock, without edits of the metadata.   *)

NextReconcile ==
    \/ InitTimeout
    \/ \E d \in Docs \cup {NoDoc} : HostNavigate(d)
    \/ \E f \in Docs : FileOpenTimeout(f)
    \/ HostLayoutChange
    \/ LayoutTimeout
    \/ HostResize
    \/ Tick
    \/ \E d \in Docs, req \in HostRequests : HostSetState(d, req)
    \/ UnlockCommand
    \/ UnlockConfirm

SpecReconcile == Init /\ [][NextReconcile]_vars

----------------------------------------------------------------------------
(* Claims about enforcement *)

Mode(d) == viewState[d].mode
InterceptorInstalled(d) == patchDepth[d] > 0
AsksNonPreview(req) == Has(req, "mode") /\ req.mode # "preview"

\* C1: a request of the host for a non-preview mode on a document that is
\* enforced-locked never commits a non-preview mode, however the document
\* came to be locked.
C1_LockedRequestNeverCommitsSource ==
    [][ \A d \in Docs :
          (EnforcedLocked(d) /\ HostSetState(d, [mode |-> "source"]))
              => viewState'[d].mode = "preview" ]_vars

\* C2: on a view with the interceptor installed, a request for a non-preview
\* mode on an enforced-locked document reaches the host's setter once, with
\* mode rewritten to preview, and emits one notice; any other request reaches
\* the setter once, as it was made, and emits no notice.
C2_InterceptorRewrite ==
    (last.op = "host-setState" /\ InterceptorInstalled(last.doc)) =>
        /\ last.setterCalls = 1
        /\ IF EnforcedLocked(last.doc) /\ AsksNonPreview(last.req)
           THEN /\ last.fwd = [last.req EXCEPT !.mode = "preview"]
                /\ last.notices = 1
           ELSE /\ last.fwd = last.req
                /\ last.notices = 0

\* C2 witness: a request for source with a source style, on a patched view of
\* an enforced-locked document, was rewritten.
C2_Witness ==
    /\ last.op = "host-setState" /\ InterceptorInstalled(last.doc)
    /\ EnforcedLocked(last.doc)
    /\ last.req = [mode |-> "source", source |-> TRUE]
    /\ last.fwd = [mode |-> "preview", source |-> TRUE]

\* a request for source on a patched view of a temporarily unlocked document
\* went through unchanged
C2_WitnessPassThrough ==
    /\ last.op = "host-setState" /\ InterceptorInstalled(last.doc)
    /\ last.doc \in temporarilyUnlockedFiles
    /\ AsksNonPreview(last.req)
    /\ last.fwd = last.req

EnforceOps == {"tick", "layout-change", "resize", "metadata-check", "active-leaf-change"}

\* this step ran checkAndEnforceLockedFiles (the interval skips it while any
\* file is temporarily unlocked)
EnforceRan ==
    /\ last'.op \in EnforceOps
    /\ last'.op = "tick" => temporarilyUnlockedFiles = {}

\* C3: when checkAndEnforceLockedFiles returns and the active document is
\* enforced-locked, the active view is in preview mode.
C3_EnforcedLockedIsPreview ==
    [][ ( /\ EnforceRan
          /\ active' # NoDoc
          /\ active' \in lockedFiles'
          /\ active' \notin temporarilyUnlockedFiles )
            => viewState'[active'].mode = "preview" ]_vars

\* C3 witness: a tick found the enforced-locked active document out of
\* preview and put it back (the run's notice tells).
C3_Witness ==
    /\ last.op = "tick"
    /\ last.notices = 1
    /\ active # NoDoc /\ EnforcedLocked(active)
    /\ Mode(active) = "preview"

\* C4: whenever the active document is enforced-locked and out of preview, it
\* is eventually in preview, relying on the interval alone.  Stated on one
\* step: with no delayed callback pending, the interval's tick is the only
\* step of the plugin left, so the tick itself must put the view in preview
\* (a behaviour of ticks alone would otherwise leave it out of preview for
\* ever).
C4_TickRestoresPreview ==
    [][ \A d \in Docs :
          ( /\ last'.op = "tick"
            /\ pending = NoPending
            /\ active = d /\ EnforcedLocked(d) /\ Mode(d) # "preview" )
              => viewState'[d].mode = "preview" ]_vars

\* C5: after the modal's Unlock on the active document D, D is not
\* enforced-locked, D is temporarily unlocked, and D's view is in source mode
\* with source = !livePreviewConfig.
C5_UnlockActive ==
    (last.op = "unlock" /\ last.doc = active) =>
        /\ ~EnforcedLocked(active)
        /\ active \in temporarilyUnlockedFiles
        /\ viewState[active] = [mode |-> "source", source |-> ~livePreviewConfig]

\* C5 witness: the active document, its view patched and in preview with live
\* preview style, was unlocked while the host's configuration has live preview
\* off.
C5_Witness ==
    /\ last.op = "unlock" /\ last.doc = active
    /\ InterceptorInstalled(active)
    /\ ~livePreviewConfig
    /\ viewState[active].source

\* C6: while D is temporarily unlocked and the active document does not
\* change, no step other than the host's own request for preview puts D's view
\* into preview or makes D enforced-locked.
C6_UnlockSuspendsEnforcement ==
    [][ \A d \in Docs :
          ( /\ d \in temporarilyUnlockedFiles
            /\ Mode(d) = "source"
            /\ active' = active
            /\ ~(last'.op = "host-setState" /\ last'.doc = d) )
              => ( /\ viewState'[d].mode = "source"
                   /\ ~(d \in lockedFiles' /\ d \notin temporarilyUnlockedFiles') ) ]_vars

\* C7: once the active-leaf-change handler has run, no file is temporarily
\* unlocked.
C7_NavigationClearsUnlocks ==
    last.op = "active-leaf-change" => temporarilyUnlockedFiles = {}

\* C7 witness: the handler ran with no markdown view active afterwards and
\* dropped a temporarily unlocked file.
C7_Witness ==
    /\ last.op = "active-leaf-change"
    /\ active = NoDoc
    /\ last.cleared # {}
    /\ temporarilyUnlockedFiles = {}

\* C8: the active document changed away from the temporarily unlocked D, whose
\* policy still resolves to lock; after the tick that follows, D is
\* enforced-locked and its view is in preview.
C8_RelockedByNextTick ==
    [][ \A d \in Docs :
          ( /\ last.op = "active-leaf-change"
            /\ d \in last.cleared
            /\ d # active
            /\ Resolved(d) = "lock"
            /\ last'.op = "tick" )
              => ( /\ d \in lockedFiles' /\ d \notin temporarilyUnlockedFiles'
                   /\ viewState'[d].mode = "preview" ) ]_vars

----------------------------------------------------------------------------
(* Claims about resolution (checked under SpecResolve) *)

\* the segments of a path between its "/" separators ("" has one, empty)
RECURSIVE Segments(_)
Segments(s) ==
    LET i == CHOOSE k \in 1..(Len(s) + 1) :
                 /\ k = Len(s) + 1 \/ s[k] = "/"
                 /\ \A j \in 1..(k - 1) : s[j] # "/"
    IN  IF i = Len(s) + 1 THEN <<s>>
        ELSE <<SubSeq(s, 1, i - 1)>> \o Segments(SubSeq(s, i + 1, Len(s)))

SegmentPrefix(p, q) == Len(p) <= Len(q) /\ \A i \in 1..Len(p) : p[i] = q[i]

Resolving == query # NoQuery
Rules == settings.folderViewModes

\* the token configured for a mode
NameOf(mode) ==
    LET n == settings.customYamlNames
    IN  CASE mode = "read" -> n.read
          [] mode = "edit" -> n.edit
          [] mode = "edit-source" -> n.editSource
          [] mode = "edit-preview" -> n.editPreview
          [] mode = "lock" -> n.lock

\* the frontmatter of the resolved file holds the configured property with a
\* string equal to one of the five configured names
QueryHasToken ==
    /\ query.fm.prop = settings.metaPropertyName
    /\ query.fm.val.type = "string"
    /\ \E m \in ViewModes : NameOf(m) = query.fm.val.v

\* C9: a file whose frontmatter holds the configured property with one of the
\* five configured names resolves to a mode carrying that name, whatever the
\* folder rules say about the file's folder.
C9_FrontmatterPrecedence ==
    (Resolving /\ QueryHasToken) =>
        /\ query.mode \in ViewModes
        /\ NameOf(query.mode) = query.fm.val.v

\* C9 witness: a folder rule matches the file with another mode than the one
\* its frontmatter names, and the frontmatter's mode was resolved.
C9_Witness ==
    /\ Resolving /\ QueryHasToken
    /\ query.folderMode \in ViewModes
    /\ query.folderMode # query.mode
    /\ query.mode = "lock"

\* C10: a folder rule applies to a file exactly when the rule's path, cut into
\* segments, is a prefix of the segments of the file's containing folder, with
\* the characters compared case-sensitively; getFolderViewMode finds a mode
\* exactly when such a rule is configured.
C10_ExactSegmentMatch ==
    Resolving =>
        ( query.folderMode # Undefined
            <=> \E i \in 1..Len(Rules) :
                    SegmentPrefix(Segments(Rules[i].folderPath), Segments(query.folder)) )

\* C10 witness: rules "N" and "n" are configured; a file in N/s has been
\* matched.
C10_Witness ==
    /\ Resolving
    /\ query.folder = <<"N", "/", "s">>
    /\ Len(Rules) = 1 /\ Rules[1].folderPath = <<"N">>
    /\ query.folderMode = Rules[1].viewMode

\* a file in folder Nb, or in folder n, with the only rule on "N": no mode
C10_WitnessNoMatch ==
    /\ Resolving
    /\ query.folder \in { <<"N", "b">>, <<"n">> }
    /\ Len(Rules) = 1 /\ Rules[1].folderPath = <<"N">>
    /\ query.folderMode = Undefined


\* the rules whose path is a segment prefix of the resolved file's folder
MatchingRules ==
    {i \in 1..Len(Rules) :
        SegmentPrefix(Segments(Rules[i].folderPath), Segments(query.folder))}

\* C11: when no frontmatter token applies, the file resolves to the mode of
\* the matching rule with the smallest index in the configured list, however
\* specific the paths of the later rules are; without a matching rule it
\* resolves to nothing.
C11_FirstRuleWins ==
    (Resolving /\ ~QueryHasToken) =>
        query.mode = IF MatchingRules = {} THEN Undefined
                     ELSE Rules[CHOOSE i \in MatchingRules :
                                    \A j \in MatchingRules : i <= j].viewMode

\* C11 witness: rules [N -> read, N/s -> lock]; a file in N/s resolved to
\* read.
C11_Witness ==
    /\ Resolving /\ ~QueryHasToken
    /\ Len(Rules) = 2
    /\ Rules[1] = [folderPath |-> <<"N">>, viewMode |-> "read"]
    /\ Rules[2] = [folderPath |-> <<"N", "/", "s">>, viewMode |-> "lock"]
    /\ query.folder = <<"N", "/", "s">>
    /\ query.mode = "read"

\* C13: under the default property name and the default names, frontmatter
\* written as documented (view_mode: lock, read, edit, edit-source,
\* edit-preview) resolves to the mode it names.
C13_DocumentedValuesResolve ==
    ( /\ Resolving
      /\ settings.metaPropertyName = DEFAULT_SETTINGS.metaPropertyName
      /\ settings.customYamlNames = DEFAULT_SETTINGS.customYamlNames
      /\ query.fm \in DocumentedFrontmatters )
        => query.mode = query.fm.val.v

----------------------------------------------------------------------------
(* Claims about lock discovery and the registry *)

\* C18: when checkAndEnforceLockedFiles runs on an active document that
\* resolves to lock and is in neither registry set, the document is in
\* lockedFiles afterwards and its view is in preview; a temporarily unlocked
\* active document is not added to lockedFiles.
C18_LockDiscovery ==
    [][ \A d \in Docs :
          (EnforceRan /\ active' = d) =>
              /\ ( /\ Resolved(d) = "lock"
                   /\ d \notin lockedFiles
                   /\ d \notin temporarilyUnlockedFiles )
                     => (d \in lockedFiles' /\ viewState'[d].mode = "preview")
              /\ d \in temporarilyUnlockedFiles
                     => (d \in lockedFiles' => d \in lockedFiles) ]_vars

\* C18 witness: before the startup scan, the metadata callback found the lock
\* of the active document 2, whose view no file-open callback has touched,
\* and forced it to preview.
C18_Witness ==
    /\ last.op = "metadata-check" /\ last.notices = 1
    /\ pending.init = 1
    /\ active = 2
    /\ ~InterceptorInstalled(2)
    /\ Resolved(2) = "lock"
    /\ lockedFiles = {2}
    /\ Mode(2) = "preview"

\* a run on a temporarily unlocked active document that resolves to lock left
\* it out of lockedFiles
C18_WitnessUnlocked ==
    /\ last.op \in {"resize", "layout-change", "metadata-check"}
    /\ active # NoDoc
    /\ active \in temporarilyUnlockedFiles
    /\ Resolved(active) = "lock"
    /\ active \notin lockedFiles
    /\ Mode(active) = "source"


\* the step wrote no view state and added nothing to lockedFiles
NothingEnforced == viewState' = viewState /\ lockedFiles' = lockedFiles

\* C19 as stated: while any file is temporarily unlocked, no trigger (tick,
\* layout-change, active-leaf-change, resize, metadata callback) writes a
\* view state or adds to lockedFiles, for any document.
C19_GlobalSuppression ==
    [][ (temporarilyUnlockedFiles # {} /\ last'.op \in EnforceOps)
            => NothingEnforced ]_vars

\* C19 amended: while any file is temporarily unlocked the interval's tick
\* enforces nothing, for any document; the other triggers enforce nothing
\* when the active document itself is temporarily unlocked.
C19_SuppressionPerTrigger ==
    [][ /\ (temporarilyUnlockedFiles # {} /\ last'.op = "tick")
            => NothingEnforced
        /\ ( /\ last'.op \in EnforceOps \ {"tick"}
             /\ active' \in temporarilyUnlockedFiles )
            => NothingEnforced ]_vars

\* C19 witness: a tick left the active document, enforced-locked and in
\* source, as it was, because another document is temporarily unlocked.
C19_Witness ==
    /\ last.op = "tick"
    /\ active # NoDoc
    /\ temporarilyUnlockedFiles # {}
    /\ active \notin temporarilyUnlockedFiles
    /\ EnforcedLocked(active)
    /\ Mode(active) = "source"

\* C20: a document is enforced-locked right after any code path added it to
\* lockedFiles, and not enforced-locked right after unlockFile ran on it,
\* whatever happened to it before.
C20_RegistryLaw ==
    [][ \A d \in Docs :
          /\ (d \in lockedFiles' /\ d \notin lockedFiles)
                => d \notin temporarilyUnlockedFiles'
          /\ (UnlockConfirm /\ modalFile = d)
                => ~(d \in lockedFiles' /\ d \notin temporarilyUnlockedFiles') ]_vars

\* the unlock of the other encoding: the file is added to
\* temporarilyUnlockedFiles and stays in lockedFiles
unlockFile_KeepLocked(lpc, w, act, d) ==
    LET w1 == [w EXCEPT !.temporarilyUnlockedFiles = @ \cup {d}]
    IN  IF act # NoDoc /\ act = d
        THEN ViewSetState(w1, d, [w1.viewState[d] EXCEPT !.mode = "source",
                                                         !.source = ~lpc])
        ELSE w1

\* the test of the interceptor and of the enforcement, on a handler's result
EnforcedLockedIn(w, d) ==
    d \in w.lockedFiles /\ d \notin w.temporarilyUnlockedFiles

\* C21: from any state in which the modal can unlock its file, the unlock
\* that deletes from lockedFiles and the unlock that only adds to
\* temporarilyUnlockedFiles leave every file with the same enforced-locked
\* value, right after the unlock and after the navigation that follows it.
C21_UnlockEncodingsAgree ==
    modalFile # NoDoc =>
        LET impl == unlockFile(livePreviewConfig, W0, active, modalFile)
            ref  == unlockFile_KeepLocked(livePreviewConfig, W0, active, modalFile)
        IN  \A d \in Docs :
              /\ EnforcedLockedIn(impl, d) = EnforcedLockedIn(ref, d)
              /\ EnforcedLockedIn(handleLeafChange(impl), d)
                     = EnforcedLockedIn(handleLeafChange(ref), d)

\* C22: the test behind the Unlock command, the click guard and the Ctrl/Cmd+E
\* guard, isFileLocked on the file of the active view, holds exactly when
\* that file is in lockedFiles and not in temporarilyUnlockedFiles.
C22_GuardIsEnforcedLocked ==
    active # NoDoc => (isFileLocked(W0, active) <=> EnforcedLocked(active))

----------------------------------------------------------------------------
(* Claims about opening a document *)

\* the file-open callback of f reaches setViewMode: a mode is resolved and
\* the active view shows f
OpenApplies(f) ==
    /\ FileOpenTimeout(f)
    /\ active = f
    /\ Resolved(f) # Undefined

\* C14: setViewMode on a document that is not enforced-locked writes the view
\* state of the table: read -> preview; edit -> source with source =
\* !livePreviewConfig; edit-source -> source with source true; edit-preview ->
\* source with source false; lock -> preview and the file added to
\* lockedFiles; no other mode changes lockedFiles.
C14_ApplyModeTable ==
    [][ \A f \in Docs :
          (OpenApplies(f) /\ ~EnforcedLocked(f)) =>
              LET m == Resolved(f)
                  after == viewState'[f]
              IN  /\ m \in {"read", "lock"} => after.mode = "preview"
                  /\ m = "edit" =>
                         after = [mode |-> "source", source |-> ~livePreviewConfig]
                  /\ m = "edit-source" =>
                         after = [mode |-> "source", source |-> TRUE]
                  /\ m = "edit-preview" =>
                         after = [mode |-> "source", source |-> FALSE]
                  /\ lockedFiles' = IF m = "lock" THEN lockedFiles \cup {f}
                                    ELSE lockedFiles ]_vars

\* C14 witness: with live preview switched off in the host, the callback
\* applied 'edit' to the active document and wrote source style.
C14_Witness ==
    /\ last.op = "file-open" /\ last.doc = active
    /\ Resolved(active) = "edit"
    /\ ~livePreviewConfig
    /\ last.setterCalls = 1
    /\ last.fwd = [mode |-> "source", source |-> TRUE]
    /\ viewState[active] = [mode |-> "source", source |-> TRUE]
    /\ active \notin lockedFiles

\* C15: when the file-open callback acts on a document that resolves to lock
\* and is shown by the active view, the view is in preview afterwards and the
\* document is in lockedFiles.
C15_OpenLockedDocument ==
    [][ \A f \in Docs :
          (OpenApplies(f) /\ Resolved(f) = "lock") =>
              /\ viewState'[f].mode = "preview"
              /\ f \in lockedFiles' ]_vars

\* C15 witness: the callback locked the active document of folder L by the
\* folder rule and wrote preview through the view's setter.
C15_Witness ==
    /\ last.op = "file-open" /\ last.doc = active
    /\ active = 1
    /\ frontmatter[1] = NoFrontmatter
    /\ Resolved(1) = "lock"
    /\ last.setterCalls = 1
    /\ InterceptorInstalled(1)
    /\ 1 \in lockedFiles
    /\ Mode(1) = "preview"

\* C16: when the file-open callback acts on a document that resolves to edit,
\* edit-source or edit-preview, the view is in source mode with the style of
\* the mode afterwards, whatever lockedFiles holds, also when the document is
\* still in lockedFiles from an earlier resolution to lock.
C16_OpenAppliesResolvedEdit ==
    [][ \A f \in Docs :
          (OpenApplies(f) /\ Resolved(f) \in {"edit", "edit-source", "edit-preview"}) =>
              viewState'[f] =
                  [mode |-> "source",
                   source |-> CASE Resolved(f) = "edit" -> ~livePreviewConfig
                                [] Resolved(f) = "edit-source" -> TRUE
                                [] Resolved(f) = "edit-preview" -> FALSE] ]_vars

\* C17: when a document resolves to no mode, neither the file-open callback
\* on it nor a run of checkAndEnforceLockedFiles with it active writes its
\* view state or adds it to lockedFiles.
C17_UnresolvedLeavesStateUntouched ==
    [][ \A d \in Docs :
          ( /\ Resolved(d) = Undefined
            /\ \/ FileOpenTimeout(d)
               \/ (EnforceRan /\ active' = d) )
              => ( /\ viewState'[d] = viewState[d]
                   /\ d \in lockedFiles' => d \in lockedFiles ) ]_vars

----------------------------------------------------------------------------
(* Claims about the configuration in force (checked under SpecReconfig) *)

\* the frontmatter of document d holds the configured property with a string
\* equal to one of the configured names
DocHasToken(d) ==
    /\ frontmatter[d].prop = settings.metaPropertyName
    /\ frontmatter[d].val.type = "string"
    /\ \E m \in ViewModes : NameOf(m) = frontmatter[d].val.v

\* the frontmatter value of d is the configured lock name and no other name
DocHasLockToken(d) ==
    /\ frontmatter[d].prop = settings.metaPropertyName
    /\ frontmatter[d].val = StrVal(NameOf("lock"))
    /\ \A m \in ViewModes \ {"lock"} : NameOf(m) # NameOf("lock")

\* C12: a frontmatter value that is no configured name (another string, a
\* non-string, a value under another property) resolves as the same file
\* without frontmatter does; and when the configuration in force makes the
\* value the lock name, an enforcement run on the active document locks it,
\* whether or not the document was opened again.
C12_CurrentConfigurationOnly ==
    [][ \A d \in Docs :
          /\ ~DocHasToken(d) =>
                 Resolved(d) = ResolveViewMode(settings, NoFrontmatter, FilePath(d))
          /\ ( /\ DocHasLockToken(d)
               /\ active = d
               /\ (Tick \/ HostResize) )
                 => ( /\ d \in lockedFiles'
                      /\ viewState'[d].mode = "preview" ) ]_vars

\* C12 witness: the property name was changed to the one document 2 uses; a
\* tick locked document 2, whose view was never given a mode by the file-open
\* callback.
C12_Witness ==
    /\ last.op = "tick" /\ last.notices = 1
    /\ settings.metaPropertyName = "ViewStyle"
    /\ settings # ReconfigSettings
    /\ active = 2 /\ 2 \in lockedFiles
    /\ patchDepth[2] = 0
    /\ Mode(2) = "preview"

----------------------------------------------------------------------------
(* Claims about the read mode and about empty settings *)

\* C23: a document that resolves to read and whose view was given its mode
\* cannot be edited: an enforcement run of the interval on it, with no file
\* temporarily unlocked, leaves its view in preview, whatever the host's
\* controls asked for before.
C23_ReadCannotBeEdited ==
    [][ \A d \in Docs :
          ( /\ Tick
            /\ active = d
            /\ Resolved(d) = "read"
            /\ InterceptorInstalled(d)
            /\ temporarilyUnlockedFiles = {} )
              => viewState'[d].mode = "preview" ]_vars

\* the settings without the folder rules whose path is empty
WithoutEmptyRules(s) ==
    [s EXCEPT !.folderViewModes = SelectSeq(@, LAMBDA r : r.folderPath # << >>)]

\* C24: a folder rule with an empty path matches no file, so the folder rules
\* give a file what they give it without those rules; and a frontmatter value
\* that is the empty string names no mode, so the file resolves by its folder.
C24_EmptySettingsNeverMatch ==
    Resolving =>
        /\ query.folderMode
               = getFolderViewMode(WithoutEmptyRules(settings), VaultPath(query.folder))
        /\ query.fm.val = StrVal("") => query.mode = query.folderMode

----------------------------------------------------------------------------
(* Claims about repeated runs *)

\* what the laws compare: the views' states and the two sets
LiveAndRegistry(w) == <<w.viewState, w.lockedFiles, w.temporarilyUnlockedFiles>>

\* C25: setViewMode run twice in a row on a view, with the same mode, leaves
\* the views' states and the two sets as one run leaves them, for every
\* document and every mode.
C25_ApplyModeIdempotent ==
    \A d \in Docs, m \in ViewModes :
        LET once  == setViewMode(settings, livePreviewConfig, W0, d, m)
            twice == setViewMode(settings, livePreviewConfig, once, d, m)
        IN  LiveAndRegistry(twice) = LiveAndRegistry(once)

\* C25 witness: the file-open callback has applied read to the active
\* document, whose view was in source and is now in preview.
C25_Witness ==
    /\ last.op = "file-open" /\ last.doc = active
    /\ Resolved(active) = "read"
    /\ last.setterCalls = 1
    /\ Mode(active) = "preview"
    /\ active \notin lockedFiles

\* the reconciliations: the interval's, the one of the layout-change, resize
\* and metadata handlers, and the delayed one of layout-change
ReconcileKinds == {"tick", "event", "layout-check"}

Reconcile(kind, w) ==
    CASE kind = "tick" ->
           IF Cardinality(w.temporarilyUnlockedFiles) = 0
           THEN checkAndEnforceLockedFiles(settings, frontmatter, w, active)
           ELSE w
      [] kind = "event" ->
           checkAndEnforceLockedFiles(settings, frontmatter, w, active)
      [] kind = "layout-check" ->
           LayoutChangeCallback(w, active)

RECURSIVE ReconcileAll(_, _)
ReconcileAll(kinds, w) ==
    IF kinds = << >> THEN w
    ELSE ReconcileAll(Tail(kinds), Reconcile(Head(kinds), w))

MaxRuns == 2
ReconcileRuns == UNION {[1..n -> ReconcileKinds] : n \in 1..MaxRuns}
KindsOf(runs) == {runs[i] : i \in DOMAIN runs}
Reverse(runs) == [i \in DOMAIN runs |-> runs[Len(runs) + 1 - i]]

----------------------------------------------------------------------------
(* Claims about the life of a lock *)

----------------------------------------------------------------------------
(* Claims about callbacks that fire late *)

\* C28: a delayed callback does not undo what happened since it was
\* scheduled.  The file-open callback of a file that is no longer the active
\* one changes no view state and neither set; and a delayed callback (of
\* file-open, of metadata 'changed', of layout-change) that fires while the
\* active document is temporarily unlocked leaves that document's view as it
\* is and the document out of lockedFiles if it was out.
C28_DelayedCallbacksStaleSafe ==
    [][ /\ \A f \in Docs :
             (FileOpenTimeout(f) /\ active # f)
                 => /\ viewState' = viewState
                    /\ lockedFiles' = lockedFiles
                    /\ temporarilyUnlockedFiles' = temporarilyUnlockedFiles
        /\ ( /\ (\E f \in Docs : FileOpenTimeout(f)) \/ MetadataTimeout \/ LayoutTimeout
             /\ active # NoDoc
             /\ active \in temporarilyUnlockedFiles )
               => /\ viewState'[active] = viewState[active]
                  /\ active \in temporarilyUnlockedFiles'
                  /\ active \notin lockedFiles => active \notin lockedFiles' ]_vars

----------------------------------------------------------------------------
(* Claims about shutdown and startup *)

\* C29: once the plugin is unloaded the two sets are empty and stay empty,
\* no view state changes but by a request of the host, and a request of the
\* host reaches the setter as it was made, whatever callbacks were pending
\* when the plugin was unloaded.
C29_ShutdownComplete ==
    [][ /\ ~loaded' => (lockedFiles' = {} /\ temporarilyUnlockedFiles' = {})
        /\ ~loaded =>
              /\ viewState' # viewState => last'.op = "host-setState"
              /\ (last'.op = "host-setState" /\ last' # last)
                     => last'.fwd = last'.req ]_vars

\* C30: the startup scan leaves every open document that resolves to lock in
\* lockedFiles with its view in preview, the active one or not, and leaves
\* the view state and the membership in both sets of every other open
\* document as they were.
C30_StartupScan ==
    [][ InitTimeout =>
          \A d \in Docs :
              IF Resolved(d) = "lock"
              THEN d \in lockedFiles' /\ viewState'[d].mode = "preview"
              ELSE /\ viewState'[d] = viewState[d]
                   /\ (d \in lockedFiles') = (d \in lockedFiles)
                   /\ (d \in temporarilyUnlockedFiles')
                          = (d \in temporarilyUnlockedFiles) ]_vars

\* C30 witness: the scan has locked both documents, which were in source, the
\* one that is not active included.
C30_Witness ==
    /\ last.op = "init" /\ last.setterCalls = 2
    /\ active = 1
    /\ \A d \in Docs : Resolved(d) = "lock" /\ d \in lockedFiles /\ Mode(d) = "preview"

\* the scan has locked the document in the locked folder and left the other
\* one, which resolves to nothing, in source and out of lockedFiles
C30_WitnessUntouched ==
    /\ last.op = "init" /\ last.setterCalls = 1
    /\ Resolved(1) = "lock" /\ 1 \in lockedFiles /\ Mode(1) = "preview"
    /\ Resolved(2) # "lock" /\ 2 \notin lockedFiles /\ Mode(2) = "source"

----------------------------------------------------------------------------
(* Claims about the interceptor *)

\* a handler's result as the next handler finds it: the run's record cleared
Settled(w) == [w EXCEPT !.notices = 0, !.setterCalls = 0, !.fwd = NoState]

\* C31: however often setViewMode has run on a view, the view carries at
\* most one wrapper, and one request of the host calls the original setter
\* once and shows at most one notice; one more setViewMode, with any mode,
\* leaves the view with one wrapper and the same holds of a request after it.
C31_InterceptorInstalledOnce ==
    /\ \A d \in Docs : patchDepth[d] <= 1
    /\ last.op = "host-setState" => (last.setterCalls = 1 /\ last.notices <= 1)
    /\ \A d \in Docs, m \in ViewModes :
           LET w == Settled(setViewMode(settings, livePreviewConfig, W0, d, m))
           IN  /\ w.patchDepth[d] = 1
               /\ \A req \in HostRequests :
                      LET r == ViewSetState(w, d, req)
                      IN  r.setterCalls = 1 /\ r.notices <= 1

\* C31 witness: setViewMode has run on the active view, which is locked, and
\* a request of the host for source was answered with one setter call and
\* one notice.
C31_Witness ==
    /\ last.op = "host-setState" /\ last.doc = active
    /\ patchDepth[active] = 1
    /\ EnforcedLocked(active)
    /\ AsksNonPreview(last.req)
    /\ last.setterCalls = 1 /\ last.notices = 1

----------------------------------------------------------------------------
(* Claims about what an enforcement run touches *)

\* the steps that are one run of checkAndEnforceLockedFiles and nothing else:
\* the interval, resize, layout-change and the metadata check
EnforceStep == last'.op \in {"tick", "resize", "layout-change", "metadata-check"}

\* C32: a run of checkAndEnforceLockedFiles without an active document
\* changes no view state and neither set; with an active document it changes
\* the view state and the membership in the sets of no other document.
C32_EnforcementTouchesActiveOnly ==
    [][ EnforceStep =>
          /\ active = NoDoc =>
                 /\ viewState' = viewState
                 /\ lockedFiles' = lockedFiles
                 /\ temporarilyUnlockedFiles' = temporarilyUnlockedFiles
          /\ \A d \in Docs \ {active} :
                 /\ viewState'[d] = viewState[d]
                 /\ (d \in lockedFiles') = (d \in lockedFiles)
                 /\ (d \in temporarilyUnlockedFiles')
                        = (d \in temporarilyUnlockedFiles) ]_vars

\* C32 witness: both documents are locked and were in source; the interval
\* put the active one back to preview and left the other in source.
C32_Witness ==
    /\ last.op = "tick" /\ last.setterCalls = 1
    /\ active = 2 /\ EnforcedLocked(2) /\ Mode(2) = "preview"
    /\ EnforcedLocked(1) /\ Mode(1) = "source"

\* a run without an active document found a locked document in source and
\* left it there
C32_WitnessNoActive ==
    /\ last.op = "resize" /\ active = NoDoc
    /\ EnforcedLocked(1) /\ Mode(1) = "source"

\* C33: a run of checkAndEnforceLockedFiles writes at most one view state,
\* to preview, with one notice for it, and the write passes the wrapper as it
\* was issued; a run that finds the view in preview writes nothing and shows
\* nothing; so the layout-change the host raises after a corrective write,
\* and its delayed check, write nothing and the chain ends there.
C33_NoFeedbackLoop ==
    [][ /\ last'.op \in EnforceOps =>
              /\ last'.setterCalls <= 1
              /\ last'.notices = last'.setterCalls
              /\ last'.setterCalls = 1 =>
                     /\ last'.fwd.mode = "preview"
                     /\ viewState[last'.doc].mode # "preview"
                     /\ viewState'[last'.doc].mode = "preview"
        /\ ( /\ last.op \in EnforceOps
             /\ last.setterCalls = 1
             /\ last'.op \in {"layout-change", "layout-check"} )
               => /\ last'.setterCalls = 0
                  /\ last'.notices = 0
                  /\ viewState' = viewState ]_vars

\* C33 witness: the interval found the active document newly locked and in
\* source, on a view that carries the wrapper, and put it to preview with one
\* write and one notice.
C33_Witness ==
    /\ last.op = "tick" /\ last.doc = active /\ active # NoDoc
    /\ patchDepth[active] = 1
    /\ last.setterCalls = 1 /\ last.notices = 1
    /\ last.fwd.mode = "preview"
    /\ EnforcedLocked(active) /\ Mode(active) = "preview"

----------------------------------------------------------------------------
(* Claims about the host's configuration *)

\* app.json cannot be read or parsed, or holds no livePreview key
FailedConfigs == {"unreadable", "absent"}

\* C34: when app.json cannot be read or parsed, or holds no livePreview key,
\* livePreviewConfig is true and the plugin is loaded with its startup scan
\* scheduled; setViewMode with edit and unlockFile of the active file then
\* write source = false.
C34_ConfigFailureDefaultsToLivePreview ==
    /\ last.op = "onload" => (loaded /\ pending.init = 1)
    /\ \A c \in FailedConfigs :
           LET lpc == refreshEditConfig(c)
           IN  /\ lpc = TRUE
               /\ \A d \in Docs :
                      /\ setViewMode(settings, lpc, W0, d, "edit").viewState[d].source
                             = FALSE
                      /\ unlockFile(lpc, W0, d, d).viewState[d].source = FALSE

\* C34 witness: with livePreviewConfig true the file-open callback has
\* applied edit to the active document, and the setter received mode source
\* with source = false.
C34_Witness ==
    /\ livePreviewConfig = TRUE
    /\ last.op = "file-open" /\ last.doc = active
    /\ Resolved(active) = "edit"
    /\ last.setterCalls = 1
    /\ last.fwd = [mode |-> "source", source |-> FALSE]
    /\ viewState[active] = [mode |-> "source", source |-> FALSE]

----------------------------------------------------------------------------
(* Claims about what a corrective write changes *)

\* the steps in which every write of the engine forces a view to preview
ForcingOps == {"init", "active-leaf-change", "tick"}

\* the file-open callback applies read or lock to the active file
AppliesPreviewMode ==
    /\ last'.op = "file-open" /\ last'.doc = active
    /\ Resolved(active) \in {"read", "lock"}

\* the wrapper has rewritten the request of the host
Rewritten == last'.op = "host-setState" /\ last'.fwd # last'.req

C35_WitnessForced ==
    /\ last.op = "tick" /\ last.setterCalls = 1 /\ active # NoDoc
    /\ viewState[active] = [mode |-> "preview", source |-> TRUE]

----------------------------------------------------------------------------
(* Claims about names shared by two modes *)

\* the order in which convertYamlValueToViewMode compares the names
ModeOrder == <<"read", "edit", "edit-source", "edit-preview", "lock">>

\* the first mode in that order that carries the name
FirstModeNamed(name) ==
    ModeOrder[CHOOSE i \in DOMAIN ModeOrder :
                  /\ NameOf(ModeOrder[i]) = name
                  /\ \A j \in 1..(i - 1) : NameOf(ModeOrder[j]) # name]

\* C36: a frontmatter value that is the name of one or more modes resolves
\* to the first of them in the order read, edit, edit-source, edit-preview,
\* lock; a lock name shared with an earlier mode never resolves to lock.
C36_FirstModeOfSharedName ==
    (Resolving /\ QueryHasToken) =>
        /\ query.mode = FirstModeNamed(query.fm.val.v)
        /\ (\E m \in ViewModes \ {"lock"} : NameOf(m) = NameOf("lock"))
               => query.mode # "lock"

\* C36 witness: the lock name was set to the name of edit, and a file with
\* that value resolved to edit.
C36_Witness ==
    /\ Resolving /\ QueryHasToken
    /\ NameOf("lock") = NameOf("edit")
    /\ query.fm.val.v = NameOf("lock")
    /\ query.mode = "edit"

====
